---- MODULE Spec2Model ----
(***************************************************************************)
(* Model of the AI-grading pipeline of streamlit_codeX:                    *)
(*   services/openai_eval.py  (_parse_json, evaluate_with_openai and the   *)
(*                             tenacity @retry that wraps it)              *)
(*   pages/Student.py         (the "Analyze & Grade" handler)              *)
(*   db.py                    (insert_submission, get_activity,            *)
(*                             insert_activity, get_snowflake_conn)        *)
(*   services/activities.py   (create_activity)                            *)
(* Specifications: Spec (one run of the Student page), TwoCalls (two       *)
(* interleaved invocations of evaluate_with_openai), Creating (two         *)
(* interleaved create_activity calls) and Connecting (two interleaved      *)
(* get_snowflake_conn calls).                                              *)
(*                                                                         *)
(* Python floats are modelled as exact rationals [n |-> .., d |-> ..] in   *)
(* lowest terms with d > 0.  Python dicts are modelled as TLA+ records     *)
(* whose DOMAIN is the set of keys present.                                *)
(***************************************************************************)
EXTENDS Integers, Sequences, FiniteSets, TLC

(***************************************************************************)
(* Bounds of the model.                                                    *)
(***************************************************************************)
\* largest number of rows table SUBMISSIONS holds before the button is pressed
MaxPrior == 1
\* largest number of rows in an oracle payload's per_criterion list
MaxRows == 2

(***************************************************************************)
(* Exact rational arithmetic standing in for Python's float.               *)
(***************************************************************************)
Abs(x) == IF x < 0 THEN -x ELSE x

RECURSIVE GCD(_, _)
GCD(a, b) == IF b = 0 THEN a ELSE GCD(b, a % b)

\* the rational n/d (d # 0) in lowest terms with a positive denominator
Rat(n, d) ==
    LET g == GCD(Abs(n), Abs(d))
        s == IF d < 0 THEN -1 ELSE 1
    IN  [n |-> (s * n) \div g, d |-> (s * d) \div g]

Zero == Rat(0, 1)
Hundred == Rat(100, 1)

RAdd(a, b) == Rat(a.n * b.d + b.n * a.d, a.d * b.d)
RMul(a, b) == Rat(a.n * b.n, a.d * b.d)
RDiv(a, b) == Rat(a.n * b.d, a.d * b.n)
RLt(a, b)  == a.n * b.d < b.n * a.d
RLe(a, b)  == a.n * b.d <= b.n * a.d

\* Python's max(a, b) and min(a, b): the first argument unless the second
\* is strictly greater (resp. smaller)
PyMax(a, b) == IF RLt(a, b) THEN b ELSE a
PyMin(a, b) == IF RLt(b, a) THEN b ELSE a

\* Python's round(x, 2): nearest multiple of 1/100, ties to the even one
Round2(x) ==
    LET num == 100 * x.n
        q   == num \div x.d
        r   == num % x.d
        h   == IF 2 * r < x.d THEN q
               ELSE IF 2 * r > x.d THEN q + 1
               ELSE IF q % 2 = 0 THEN q ELSE q + 1
    IN  Rat(h, 100)

(***************************************************************************)
(* Rubrics.  A criterion is a dict with key "criterion" and, unless the    *)
(* weight is missing, key "weight"; raw weights are given in tenths.       *)
(***************************************************************************)
Crit(name, tenths) == [criterion |-> name, weight |-> Rat(tenths, 10)]
CritNoWeight(name) == [criterion |-> name]

Rubrics ==
    { <<Crit("Correctness", 5), Crit("Style", 5)>>,
      <<Crit("Correctness", 5), Crit("Quality", 2),
        Crit("Efficiency", 2), Crit("Edge Cases", 1)>>,
      <<Crit("Correctness", 400), Crit("Style", 200)>>,
      <<Crit("Correctness", 0), Crit("Style", 0)>>,
      <<Crit("Correctness", 5), CritNoWeight("Style")>>,
      <<Crit("Correctness", 5), Crit("Style", -2)>>,
      <<Crit("Correctness", -5), Crit("Style", 2)>>,
      <<Crit("Correctness", 20), Crit("Style", 10), Crit("Correctness", 10)>>,
      << >> }

\* activity max_score values (the Teacher page offers 1.0 .. 1000.0; the
\* function itself accepts any float)
MaxScores == { Rat(100, 1), Rat(1375, 1000) }

RECURSIVE SumSeq(_)
SumSeq(s) == IF s = << >> THEN Zero ELSE RAdd(Head(s), SumSeq(Tail(s)))

\* line 39: sum(float(c.get("weight", 0)) for c in criteria) or 1.0
RawWeight(c) == IF "weight" \in DOMAIN c THEN c.weight ELSE Zero
TotalUnit(criteria) == Rat(1, 1)
Total(criteria) ==
    LET s == SumSeq([i \in 1..Len(criteria) |-> RawWeight(criteria[i])])
    IN  IF s = Zero THEN Rat(1, 1) ELSE s

\* line 40 raises KeyError when some criterion has no "weight" key
NormalizeRaisesOnZero(criteria) ==
    \/ \E i \in 1..Len(criteria) : "weight" \notin DOMAIN criteria[i]
    \/ SumSeq([i \in 1..Len(criteria) |-> RawWeight(criteria[i])]) = Zero
NormalizeRaises(criteria) ==
    \E i \in 1..Len(criteria) : "weight" \notin DOMAIN criteria[i]

\* line 40: the normalized rubric
Normalized(criteria) ==
    [i \in 1..Len(criteria) |->
        [criterion |-> criteria[i].criterion,
         weight    |-> RDiv(criteria[i].weight, Total(criteria))]]

\* line 52 and the lookup of line 55: w_map.get(name, 0.0); a dict built
\* from a list keeps the value of the last occurrence of a key
WMapGetFirst(normalized, name) ==
    LET idx == {i \in 1..Len(normalized) : normalized[i].criterion = name}
    IN  IF idx = {} THEN Zero
        ELSE normalized[CHOOSE i \in idx : \A k \in idx : i <= k].weight
WMapGet(normalized, name) ==
    LET idx == {i \in 1..Len(normalized) : normalized[i].criterion = name}
    IN  IF idx = {} THEN Zero
        ELSE normalized[CHOOSE i \in idx : \A k \in idx : k <= i].weight

(***************************************************************************)
(* The oracle's answer.  A JSON number is a rational, a JSON value that    *)
(* float() rejects is NotNum; a per_criterion entry that is not a JSON     *)
(* object is NotObj.                                                       *)
(***************************************************************************)
NotNum == [t |-> "str"]
NotObj == [t |-> "notobj"]
IsNum(v) == "n" \in DOMAIN v
IsObj(row) == "t" \notin DOMAIN row

\* d[k] := v on a dict
Put(d, k, v) == [x \in (DOMAIN d) \cup {k} |-> IF x = k THEN v ELSE d[x]]
\* d.get(k, default)
Get(d, k, default) == IF k \in DOMAIN d THEN d[k] ELSE default

\* the rows from which every per_criterion list up to MaxRows is built
OracleRows ==
    { [criterion |-> "Correctness", weight |-> Rat(9, 10), score |-> Rat(100, 1)],
      [criterion |-> "Style", score |-> Rat(150, 1)],
      [criterion |-> "Style", score |-> Rat(-20, 1)],
      [criterion |-> "Bonus", weight |-> Rat(2, 1), score |-> Rat(100, 1)] }

\* further per_criterion lists the oracle may answer with
ExampleRowLists ==
    { << [criterion |-> "Correctness", score |-> Rat(90, 1)] >>,
      << [criterion |-> "Correctness", score |-> NotNum] >>,
      << NotObj >>,
      << [criterion |-> "Correctness", weight |-> Rat(9, 10), score |-> Rat(100, 1)],
         [criterion |-> "Style", weight |-> Rat(1, 10), score |-> Rat(0, 1)] >>,
      << [criterion |-> "Correctness", score |-> Rat(90, 1)],
         [criterion |-> "Quality", score |-> Rat(80, 1)],
         [criterion |-> "Efficiency", score |-> Rat(70, 1)],
         [criterion |-> "Edge Cases", score |-> Rat(60, 1)] >> }

RowLists == UNION { [1..k -> OracleRows] : k \in 0..MaxRows } \cup ExampleRowLists

\* the JSON objects the oracle may answer with
Payloads ==
    { [per_criterion |-> rows, overall_score |-> Rat(177, 2),
       summary |-> "Good work."] : rows \in RowLists }
    \cup { [per_criterion |-> rows, overall_score |-> Rat(177, 2)] :
              rows \in RowLists }
    \cup { [overall_score |-> Rat(177, 2)],
           [summary |-> "Good work."] }

\* A response text is a sequence of segments: an object (the serialization
\* of a JSON object, "{" ... "}"), "badobj" ("{" ... "}" that is not
\* JSON), "lbrace"/"rbrace" (a lone "{" or "}"), "lbr"/"rbr" ("[" and "]"),
\* "scalar" (a JSON number, string or null) and "prose" (anything else,
\* without braces).
Obj(p) == [k |-> "obj", v |-> p]
Seg(kind) == [k |-> kind]

\* the payloads that also occur wrapped in other text
Wrapped ==
    { [overall_score |-> Rat(177, 2)],
      [per_criterion |-> << [criterion |-> "Style", score |-> Rat(150, 1)] >>,
       overall_score |-> Rat(177, 2)] }

Texts ==
    { <<Obj(p)>> : p \in Payloads }
    \cup { <<Seg("prose"), Obj(p), Seg("prose")>> : p \in Wrapped }
    \cup { <<Seg("lbr"), Obj(p), Seg("rbr")>> : p \in Wrapped }
    \cup { <<Obj(p), Obj(p)>> : p \in Wrapped }
    \cup { <<Seg("prose")>>, <<Seg("badobj")>>, <<Seg("scalar")>>,
           <<Seg("lbr"), Seg("scalar"), Seg("rbr")>>,
           <<Seg("lbr"), Seg("rbr")>>,
           <<Seg("rbrace"), Seg("prose"), Seg("lbrace")>>,
           <<Seg("lbrace"), Seg("prose"), Seg("rbrace")>> }

\* message.content is either a text or None
NoContent == << [k |-> "none"] >>
Contents == Texts \cup {NoContent}

\* json.loads: the value of a text, or JSONDecodeError
NonDict == [t |-> "nondict"]
DecodeError == [t |-> "error"]
Loads(text) ==
    IF Len(text) = 1 /\ text[1].k = "obj" THEN text[1].v
    ELSE IF Len(text) = 1 /\ text[1].k = "scalar" THEN NonDict
    ELSE IF Len(text) = 2 /\ text[1].k = "lbr" /\ text[2].k = "rbr" THEN NonDict
    ELSE IF /\ Len(text) = 3 /\ text[1].k = "lbr" /\ text[3].k = "rbr"
            /\ text[2].k \in {"obj", "scalar"} THEN NonDict
    ELSE DecodeError

FallbackNoSummary == [per_criterion |-> << >>, overall_score |-> Zero,
                      summary |-> ""]
Fallback == [per_criterion |-> << >>, overall_score |-> Zero,
             summary |-> "Parsing failed."]

\* _parse_json: the substring from the first "{" to the last "}" if there
\* is one, the whole text otherwise; any exception gives the fallback
_parse_json(text) ==
    IF text = NoContent THEN Fallback
    ELSE
    LET opens  == {p \in 1..Len(text) : text[p].k \in {"obj", "badobj", "lbrace"}}
        closes == {p \in 1..Len(text) : text[p].k \in {"obj", "badobj", "rbrace"}}
        i == CHOOSE p \in opens  : \A q \in opens  : p <= q
        j == CHOOSE p \in closes : \A q \in closes : q <= p
        v == IF opens # {} /\ closes # {} /\ j >= i
             THEN Loads(SubSeq(text, i, j))
             ELSE Loads(text)
    IN  IF v = DecodeError THEN Fallback ELSE v

(***************************************************************************)
(* evaluate_with_openai: one pass through the function body.               *)
(***************************************************************************)
Raise(exc, called, responded) ==
    [status |-> "raise", exc |-> exc, called |-> called, responded |-> responded]
Return(data) == [status |-> "ok", data |-> data]

\* line 55: the weight a row is given
RowWeightOracleOnly(row, normalized) == Get(row, "weight", Zero)
RowWeight(row, normalized) ==
    Get(row, "weight", WMapGet(normalized, Get(row, "criterion", "")))

\* lines 53-57: the loop over data["per_criterion"]; yields the rewritten
\* rows and agg, or the exception of the first row that raises
RECURSIVE Reconcile(_, _, _, _)
Reconcile(rows, normalized, done, agg) ==
    IF rows = << >> THEN [status |-> "ok", rows |-> done, agg |-> agg]
    ELSE LET row == Head(rows) IN
         IF ~IsObj(row) THEN [status |-> "raise", exc |-> "AttributeError"]
         ELSE LET w == RowWeight(row, normalized)
                  score == Get(row, "score", Zero)
              IN  IF ~IsNum(score) \/ ~IsNum(w)
                  THEN [status |-> "raise", exc |-> "ValueError"]
                  ELSE Reconcile(Tail(rows), normalized,
                                 Append(done, Put(row, "weight", w)),
                                 RAdd(agg, RMul(score, w)))

\* line 58
ClampAbove(agg) == PyMin(Hundred, agg)
Clamp(agg) == PyMax(Zero, PyMin(Hundred, agg))

\* line 64
ScaledTotalNoRound(overall, max_score) ==
    RMul(RDiv(overall, Hundred), max_score)
ScaledTotal(overall, max_score) ==
    Round2(RMul(RDiv(overall, Hundred), max_score))

\* lines 49-65 on the content of a response
GradeOverwritesSummary(content, normalized, max_score) ==
    LET data == _parse_json(content) IN
    IF data = NonDict THEN Raise("AttributeError", TRUE, TRUE)
    ELSE IF Get(data, "per_criterion", << >>) # << >>
    THEN LET r == Reconcile(data.per_criterion, normalized, << >>, Zero) IN
         IF r.status = "raise" THEN Raise(r.exc, TRUE, TRUE)
         ELSE LET d1 == Put(data, "per_criterion", r.rows)
                  d2 == Put(d1, "overall_score", Clamp(r.agg))
              IN  Return(Put(d2, "_scaled_total",
                             ScaledTotal(d2.overall_score, max_score)))
    ELSE LET d1 == Put(data, "per_criterion", normalized)
             d2 == Put(d1, "overall_score", Zero)
             d3 == Put(d2, "summary", "No feedback returned.")
         IN  Return(Put(d3, "_scaled_total",
                        ScaledTotal(d3.overall_score, max_score)))
GradeKeepsOracleOverall(content, normalized, max_score) ==
    LET data == _parse_json(content) IN
    IF data = NonDict THEN Raise("AttributeError", TRUE, TRUE)
    ELSE IF Get(data, "per_criterion", << >>) # << >>
    THEN LET r == Reconcile(data.per_criterion, normalized, << >>, Zero) IN
         IF r.status = "raise" THEN Raise(r.exc, TRUE, TRUE)
         ELSE LET d1 == Put(data, "per_criterion", r.rows)
                  d2 == Put(d1, "overall_score",
                            Get(data, "overall_score", Clamp(r.agg)))
              IN  Return(Put(d2, "_scaled_total",
                             ScaledTotal(d2.overall_score, max_score)))
    ELSE LET d1 == Put(data, "per_criterion", normalized)
             d2 == Put(d1, "overall_score", Zero)
             d3 == Put(d2, "summary", Get(data, "summary", "No feedback returned."))
         IN  Return(Put(d3, "_scaled_total",
                        ScaledTotal(d3.overall_score, max_score)))
Grade(content, normalized, max_score) ==
    LET data == _parse_json(content) IN
    IF data = NonDict THEN Raise("AttributeError", TRUE, TRUE)
    ELSE IF Get(data, "per_criterion", << >>) # << >>
    THEN LET r == Reconcile(data.per_criterion, normalized, << >>, Zero) IN
         IF r.status = "raise" THEN Raise(r.exc, TRUE, TRUE)
         ELSE LET d1 == Put(data, "per_criterion", r.rows)
                  d2 == Put(d1, "overall_score", Clamp(r.agg))
              IN  Return(Put(d2, "_scaled_total",
                             ScaledTotal(d2.overall_score, max_score)))
    ELSE LET d1 == Put(data, "per_criterion", normalized)
             d2 == Put(d1, "overall_score", Zero)
             d3 == Put(d2, "summary", Get(data, "summary", "No feedback returned."))
         IN  Return(Put(d3, "_scaled_total",
                        ScaledTotal(d3.overall_score, max_score)))

\* what the oracle does with one request
Transport == [kind |-> "transport"]
Response(content) == [kind |-> "response", content |-> content]

\* lines 39-65
evaluate_with_openai(criteria, max_score, oracle) ==
    IF NormalizeRaises(criteria) THEN Raise("KeyError", FALSE, FALSE)
    ELSE IF oracle.kind = "transport" THEN Raise("APIConnectionError", TRUE, FALSE)
    ELSE Grade(oracle.content, Normalized(criteria), max_score)

(***************************************************************************)
(* The submission flow of pages/Student.py around the retried call.        *)
(***************************************************************************)
\* @retry(stop=stop_after_attempt(3), ...)
MaxAttempts == 3

VARIABLES
    criteria,     \* activity["criteria"]
    max_score,    \* activity["max_score"]
    pc,           \* "idle", "attempt", "backoff", "returned", "raised", "done"
    attempt,      \* tenacity's attempt number of the running invocation
    log,          \* what each pass of the invocation did with the oracle
    waits,        \* the sleeps between the passes of the invocation, in order
    sent,         \* the rubric in the request of the latest oracle call
    resp,         \* message.content of the response the running pass got
    res,          \* the dict evaluate_with_openai returned, or NoResult
    error,        \* the exception the invocation ended with, or NoError
    shown,        \* the last message the page displayed
    submissions,  \* the rows of table SUBMISSIONS
    inserts       \* insert_submission calls made by this run of the page

\* two invocations of evaluate_with_openai running side by side (TwoCalls)
VARIABLES
    caller_criteria,   \* the list object both invocations were given
    criteria_before,   \* what that list held when the invocations started
    caller_max_score,  \* the max_score both invocations were given
    reply,             \* per invocation: what the oracle does with its request
    frame              \* per invocation: position, local variables, outcome

twoCallsVars == <<caller_criteria, criteria_before, caller_max_score, reply, frame>>

\* create_activity calls running side by side (Creating)
VARIABLES
    ACTIVITIES,        \* the JOIN_CODE of each row of table ACTIVITIES, in order
    creating           \* per call: position, loop count, code, outcome

createVars == <<ACTIVITIES, creating>>

\* get_snowflake_conn calls running side by side (Connecting)
VARIABLES
    _conn_cache,       \* db._conn_cache: the keys present and their connection
    connections,       \* the connections snowflake.connector.connect has opened
    getting            \* per call: position, attempt number, locals, outcome

connVars == <<_conn_cache, connections, getting>>

otherVars == <<twoCallsVars, createVars, connVars>>

vars == <<criteria, max_score, pc, attempt, log, waits, sent, resp, res, error,
          shown, submissions, inserts, otherVars>>

\* no invocation of TwoCalls is running
TwoCallsUnused ==
    /\ caller_criteria = << >>
    /\ criteria_before = << >>
    /\ caller_max_score = Zero
    /\ reply = << >>
    /\ frame = << >>

\* no call of Creating is running
CreatingUnused ==
    /\ ACTIVITIES = << >>
    /\ creating = << >>

\* no call of Connecting is running
ConnectingUnused ==
    /\ _conn_cache = << >>
    /\ connections = << >>
    /\ getting = << >>

\* a row stored by an earlier run of the page
PriorRow ==
    [JOIN_CODE |-> "ABC123", STUDENT_NAME |-> "Ben", SECTION |-> "BSIT-2A",
     LANGUAGE |-> "Java", CODE |-> "class A {}", AI_MODEL |-> "gpt-4o-mini",
     TOTAL_SCORE |-> Zero, FEEDBACK |-> Fallback]

NoRequest == << [t |-> "norequest"] >>
NoResponse == << [k |-> "noresponse"] >>
NoResult == [t |-> "none"]
NoError == [t |-> "none"]

Init ==
    /\ criteria \in Rubrics
    /\ max_score \in MaxScores
    /\ pc = "idle"
    /\ attempt = 0
    /\ log = << >>
    /\ waits = << >>
    /\ sent = NoRequest
    /\ resp = NoResponse
    /\ res = NoResult
    /\ error = NoError
    /\ shown = "form"
    /\ submissions \in {[i \in 1..k |-> PriorRow] : k \in 0..MaxPrior}
    /\ inserts = 0
    /\ TwoCallsUnused /\ CreatingUnused /\ ConnectingUnused

\* Student.py 71-73: the button is pressed with an empty code box
ClickBlank ==
    /\ pc = "idle"
    /\ shown' = "Please paste your code."
    /\ pc' = "done"
    /\ UNCHANGED <<otherVars, criteria, max_score, waits, sent, attempt, log,
                   resp, res, error, submissions, inserts>>

\* Student.py 71-77: the button is pressed with code; the call starts
ClickAnalyze ==
    /\ pc = "idle"
    /\ pc' = "attempt"
    /\ attempt' = 1
    /\ UNCHANGED <<otherVars, criteria, max_score, waits, sent, log, resp,
                   res, error, shown, submissions, inserts>>

\* the entry of log for one pass
LogEntry(r) ==
    IF ~r.called THEN "nocall"
    ELSE IF ~r.responded THEN "transport"
    ELSE "response"

\* what the retry wrapper raises once stop_after_attempt(3) says stop: no
\* reraise=True is given, so it is tenacity's RetryError around the last
\* exception
Reraise(exc) == [kind |-> exc, last |-> exc]
RetryError(exc) == [kind |-> "RetryError", last |-> exc]

\* stop_after_attempt(3): whether the wrapper gives up after this attempt
StopLate(attempt_number) == attempt_number > MaxAttempts
stop_after_attempt(attempt_number) == attempt_number >= MaxAttempts

\* openai_eval.py 37-65: one pass of the body under the retry wrapper
Pass(oracle) ==
    /\ pc = "attempt"
    /\ LET r == evaluate_with_openai(criteria, max_score, oracle) IN
       IF r.status = "ok"
       THEN /\ res' = r.data
            /\ log' = Append(log, "response")
            /\ resp' = oracle.content
            /\ pc' = "returned"
            /\ UNCHANGED error
       ELSE /\ log' = Append(log, LogEntry(r))
            /\ resp' = IF r.responded THEN oracle.content ELSE NoResponse
            /\ res' = NoResult
            /\ IF stop_after_attempt(attempt)
               THEN pc' = "raised" /\ error' = RetryError(r.exc)
               ELSE pc' = "backoff" /\ UNCHANGED error
    /\ sent' = IF NormalizeRaises(criteria) THEN sent ELSE Normalized(criteria)
    /\ UNCHANGED <<otherVars, criteria, max_score, waits, attempt, shown,
                   submissions, inserts>>

\* a pass in which line 40 raises before the oracle is asked
PassNoCall ==
    /\ NormalizeRaises(criteria)
    /\ Pass(Transport)

\* a pass in which client.chat.completions.create raises
PassTransportFails ==
    /\ ~NormalizeRaises(criteria)
    /\ Pass(Transport)

\* a pass in which the oracle answers
PassResponds ==
    /\ ~NormalizeRaises(criteria)
    /\ \E c \in Contents : Pass(Response(c))

\* wait_exponential(min=1, max=8), with tenacity's defaults multiplier=1 and
\* exp_base=2: max(max(0, min), min(multiplier * exp_base ** (n - 1), max))
\* after attempt number n
wait_exponentialFromTwo(attempt_number) ==
    LET result == 1 * 2 ^ attempt_number
        upper  == IF result < 8 THEN result ELSE 8
    IN  IF upper < 1 THEN 1 ELSE upper
wait_exponential(attempt_number) ==
    LET result == 1 * 2 ^ (attempt_number - 1)
        upper  == IF result < 8 THEN result ELSE 8
    IN  IF upper < 1 THEN 1 ELSE upper

\* the wrapper sleeps and starts the next attempt
Backoff ==
    /\ pc = "backoff"
    /\ waits' = Append(waits, wait_exponential(attempt))
    /\ attempt' = attempt + 1
    /\ resp' = NoResponse
    /\ pc' = "attempt"
    /\ UNCHANGED <<otherVars, criteria, max_score, sent, log, res, error,
                   shown, submissions, inserts>>

\* Student.py 85-87: st.exception(e); st.stop()
HandleErrorNoStop ==
    /\ pc = "raised"
    /\ submissions' = Append(submissions,
           [JOIN_CODE |-> "ABC123", STUDENT_NAME |-> "Ana", SECTION |-> "BSIT-2A",
            LANGUAGE |-> "Python", CODE |-> "print(1)", AI_MODEL |-> "gpt-4o-mini",
            TOTAL_SCORE |-> Zero, FEEDBACK |-> Fallback])
    /\ inserts' = inserts + 1
    /\ shown' = "Submission saved"
    /\ pc' = "done"
    /\ UNCHANGED <<otherVars, criteria, max_score, waits, sent, attempt, log,
                   resp, res, error>>
HandleError ==
    /\ pc = "raised"
    /\ shown' = "exception"
    /\ pc' = "done"
    /\ UNCHANGED <<otherVars, criteria, max_score, waits, sent, attempt, log,
                   resp, res, error, submissions, inserts>>

\* Student.py 111-120: the record handed to save_student_submission
SubmissionCreateOverall(r) ==
    [join_code     |-> "ABC123",
     student_name  |-> "Ana",
     section       |-> "BSIT-2A",
     language      |-> "Python",
     code          |-> "print(1)",
     ai_model      |-> "gpt-4o-mini",
     total_score   |-> Get(r, "overall_score", Zero),
     feedback_json |-> r]
SubmissionCreate(r) ==
    [join_code     |-> "ABC123",
     student_name  |-> "Ana",
     section       |-> "BSIT-2A",
     language      |-> "Python",
     code          |-> "print(1)",
     ai_model      |-> "gpt-4o-mini",
     total_score   |-> Get(r, "_scaled_total", Zero),
     feedback_json |-> r]

\* json.dumps of a dict
Dumps(d) == <<Obj(d)>>

\* db.py 137-156: the row of SUBMISSIONS a record becomes
insert_submission(record) ==
    [JOIN_CODE    |-> record.join_code,
     STUDENT_NAME |-> record.student_name,
     SECTION      |-> record.section,
     LANGUAGE     |-> record.language,
     CODE         |-> record.code,
     AI_MODEL     |-> record.ai_model,
     TOTAL_SCORE  |-> record.total_score,
     FEEDBACK     |-> Loads(Dumps(record.feedback_json))]

\* Student.py 89-122: show the result and save the submission
ShowAndSave ==
    /\ pc = "returned"
    /\ submissions' = Append(submissions, insert_submission(SubmissionCreate(res)))
    /\ inserts' = inserts + 1
    /\ shown' = "Submission saved"
    /\ pc' = "done"
    /\ UNCHANGED <<otherVars, criteria, max_score, waits, sent, attempt, log,
                   resp, res, error>>

\* Student.py 89-124: show the result; the save raises (the store is
\* unreachable or rejects the row) and "Save failed" is shown
ShowAndSaveFails ==
    /\ pc = "returned"
    /\ shown' = "Save failed"
    /\ pc' = "done"
    /\ UNCHANGED <<otherVars, criteria, max_score, waits, sent, attempt, log,
                   resp, res, error, submissions, inserts>>

Next ==
    \/ ClickBlank
    \/ ClickAnalyze
    \/ PassNoCall
    \/ PassTransportFails
    \/ PassResponds
    \/ Backoff
    \/ HandleError
    \/ ShowAndSave
    \/ ShowAndSaveFails

Spec == Init /\ [][Next]_vars

(***************************************************************************)
(* TwoCalls: two invocations of the body of evaluate_with_openai, each     *)
(* stepping through its lines with its own local variables, interleaved    *)
(* in every order.  Both were given the same criteria list object.         *)
(***************************************************************************)
flowVars == <<criteria, max_score, pc, attempt, log, waits, sent, resp, res,
              error, shown, submissions, inserts>>

\* the page of Spec is not running
FlowUnused ==
    /\ criteria = << >> /\ max_score = Zero /\ pc = "unused" /\ attempt = 0
    /\ log = << >> /\ waits = << >> /\ sent = NoRequest /\ resp = NoResponse
    /\ res = NoResult /\ error = NoError /\ shown = "form"
    /\ submissions = << >> /\ inserts = 0

Invocations == {1, 2}

\* the rubrics and the oracle's behaviours the two invocations are run on
TwoCallsRubrics ==
    { <<Crit("Correctness", 5), Crit("Style", 5)>>,
      <<Crit("Correctness", 400), Crit("Style", 200)>>,
      <<Crit("Correctness", 5), CritNoWeight("Style")>>,
      <<Crit("Correctness", 20), Crit("Style", 10), Crit("Correctness", 10)>> }

TwoCallsReplies ==
    { Transport,
      Response(<<Seg("prose")>>),
      Response(<<Seg("scalar")>>),
      Response(<<Obj([summary |-> "Good work."])>>),
      Response(<<Obj([per_criterion |->
                         << [criterion |-> "Correctness", score |-> Rat(90, 1)] >>,
                      overall_score |-> Rat(177, 2)])>>),
      Response(<<Obj([per_criterion |->
                         << [criterion |-> "Style", score |-> Rat(150, 1)],
                            [criterion |-> "Bonus", weight |-> Rat(2, 1),
                             score |-> Rat(100, 1)] >>,
                      overall_score |-> Rat(177, 2),
                      summary |-> "Good work."])>>) }

\* the frame of an invocation that has not run a line yet
NoOutcome == [status |-> "running"]
NewFrame ==
    [line |-> "39", total |-> Zero, normalized |-> << >>,
     content |-> NoResponse, data |-> NoResult, agg |-> Zero, k |-> 0,
     ret |-> NoOutcome]

TwoCallsInit ==
    /\ caller_criteria \in TwoCallsRubrics
    /\ criteria_before = caller_criteria
    /\ caller_max_score \in MaxScores
    /\ reply \in [Invocations -> TwoCallsReplies]
    /\ frame = [p \in Invocations |-> NewFrame]
    /\ FlowUnused /\ CreatingUnused /\ ConnectingUnused

\* the invocation leaves the function with an exception
Raises(p, exc, called, responded) ==
    frame' = [frame EXCEPT ![p].ret = Raise(exc, called, responded),
                           ![p].line = "end"]

\* line 39
Line39(p) ==
    /\ frame[p].line = "39"
    /\ frame' = [frame EXCEPT ![p].total = Total(caller_criteria),
                              ![p].line = "40"]
    /\ UNCHANGED <<caller_criteria, criteria_before, caller_max_score, reply>>
    /\ UNCHANGED <<flowVars, createVars, connVars>>

\* line 40 (and 41, which builds the messages from normalized)
Line40InPlace(p) ==
    /\ frame[p].line = "40"
    /\ IF NormalizeRaises(caller_criteria)
       THEN Raises(p, "KeyError", FALSE, FALSE) /\ UNCHANGED caller_criteria
       ELSE LET n == [i \in 1..Len(caller_criteria) |->
                        [criterion |-> caller_criteria[i].criterion,
                         weight |-> RDiv(caller_criteria[i].weight,
                                         frame[p].total)]]
            IN  /\ frame' = [frame EXCEPT ![p].normalized = n, ![p].line = "43"]
                /\ caller_criteria' = n
    /\ UNCHANGED <<criteria_before, caller_max_score, reply>>
    /\ UNCHANGED <<flowVars, createVars, connVars>>
Line40(p) ==
    /\ frame[p].line = "40"
    /\ IF NormalizeRaises(caller_criteria)
       THEN Raises(p, "KeyError", FALSE, FALSE)
       ELSE frame' = [frame EXCEPT
               ![p].normalized =
                   [i \in 1..Len(caller_criteria) |->
                       [criterion |-> caller_criteria[i].criterion,
                        weight |-> RDiv(caller_criteria[i].weight,
                                        frame[p].total)]],
               ![p].line = "43"]
    /\ UNCHANGED <<caller_criteria, criteria_before, caller_max_score, reply>>
    /\ UNCHANGED <<flowVars, createVars, connVars>>

\* lines 43-48: the oracle is asked
Line43(p) ==
    /\ frame[p].line = "43"
    /\ IF reply[p].kind = "transport"
       THEN Raises(p, "APIConnectionError", TRUE, FALSE)
       ELSE frame' = [frame EXCEPT ![p].content = reply[p].content,
                                   ![p].line = "49"]
    /\ UNCHANGED <<caller_criteria, criteria_before, caller_max_score, reply>>
    /\ UNCHANGED <<flowVars, createVars, connVars>>

\* line 49
Line49(p) ==
    /\ frame[p].line = "49"
    /\ frame' = [frame EXCEPT ![p].data = _parse_json(frame[p].content),
                              ![p].line = "51"]
    /\ UNCHANGED <<caller_criteria, criteria_before, caller_max_score, reply>>
    /\ UNCHANGED <<flowVars, createVars, connVars>>

\* lines 51-53: the branch, w_map and agg = 0.0
Line51(p) ==
    /\ frame[p].line = "51"
    /\ IF frame[p].data = NonDict
       THEN Raises(p, "AttributeError", TRUE, TRUE)
       ELSE IF Get(frame[p].data, "per_criterion", << >>) # << >>
       THEN frame' = [frame EXCEPT ![p].agg = Zero, ![p].k = 1, ![p].line = "54"]
       ELSE frame' = [frame EXCEPT ![p].line = "60"]
    /\ UNCHANGED <<caller_criteria, criteria_before, caller_max_score, reply>>
    /\ UNCHANGED <<flowVars, createVars, connVars>>

\* lines 54-57: one turn of the loop over data["per_criterion"]
Line54(p) ==
    /\ frame[p].line = "54"
    /\ LET f == frame[p]
           rows == f.data.per_criterion
       IN  IF f.k > Len(rows)
           THEN frame' = [frame EXCEPT ![p].line = "58"]
           ELSE LET row == rows[f.k] IN
                IF ~IsObj(row) THEN Raises(p, "AttributeError", TRUE, TRUE)
                ELSE LET w == RowWeight(row, f.normalized)
                         score == Get(row, "score", Zero)
                     IN  IF ~IsNum(score) \/ ~IsNum(w)
                         THEN Raises(p, "ValueError", TRUE, TRUE)
                         ELSE frame' = [frame EXCEPT
                                 ![p].data = Put(f.data, "per_criterion",
                                     [rows EXCEPT ![f.k] = Put(row, "weight", w)]),
                                 ![p].agg = RAdd(f.agg, RMul(score, w)),
                                 ![p].k = f.k + 1]
    /\ UNCHANGED <<caller_criteria, criteria_before, caller_max_score, reply>>
    /\ UNCHANGED <<flowVars, createVars, connVars>>

\* line 58
Line58(p) ==
    /\ frame[p].line = "58"
    /\ frame' = [frame EXCEPT
           ![p].data = Put(frame[p].data, "overall_score", Clamp(frame[p].agg)),
           ![p].line = "64"]
    /\ UNCHANGED <<caller_criteria, criteria_before, caller_max_score, reply>>
    /\ UNCHANGED <<flowVars, createVars, connVars>>

\* lines 60-62
Line60(p) ==
    /\ frame[p].line = "60"
    /\ LET d1 == Put(frame[p].data, "per_criterion", frame[p].normalized)
           d2 == Put(d1, "overall_score", Zero)
           d3 == Put(d2, "summary",
                     Get(frame[p].data, "summary", "No feedback returned."))
       IN  frame' = [frame EXCEPT ![p].data = d3, ![p].line = "64"]
    /\ UNCHANGED <<caller_criteria, criteria_before, caller_max_score, reply>>
    /\ UNCHANGED <<flowVars, createVars, connVars>>

\* lines 64-65
Line64(p) ==
    /\ frame[p].line = "64"
    /\ LET d == Put(frame[p].data, "_scaled_total",
                    ScaledTotal(frame[p].data.overall_score, caller_max_score))
       IN  frame' = [frame EXCEPT ![p].data = d, ![p].ret = Return(d),
                                  ![p].line = "end"]
    /\ UNCHANGED <<caller_criteria, criteria_before, caller_max_score, reply>>
    /\ UNCHANGED <<flowVars, createVars, connVars>>

TwoCallsNext ==
    \E p \in Invocations :
        \/ Line39(p)
        \/ Line40(p)
        \/ Line43(p)
        \/ Line49(p)
        \/ Line51(p)
        \/ Line54(p)
        \/ Line58(p)
        \/ Line60(p)
        \/ Line64(p)

TwoCalls == TwoCallsInit /\ [][TwoCallsNext]_vars

(***************************************************************************)
(* Creating: create_activity of services/activities.py, called by two      *)
(* sessions at once; get_activity and insert_activity of db.py are         *)
(* separate statements on the shared table.                                *)
(***************************************************************************)
Creators == {1, 2}

\* the values gen_join_code may draw
JoinCodes == {"A1B2C3", "D4E5F6"}

\* for _ in range(5)
MaxTries == 5

NewCall == [line |-> "11", tries |-> 0, code |-> "", existing |-> FALSE,
            ret |-> NoOutcome]

CreatingInit ==
    /\ ACTIVITIES \in {<< >>, <<"A1B2C3">>, <<"A1B2C3", "D4E5F6">>}
    /\ creating = [c \in Creators |-> NewCall]
    /\ FlowUnused /\ TwoCallsUnused /\ ConnectingUnused

\* activities.py 11-12: the next turn of the loop draws a code
gen_join_code(c) ==
    /\ creating[c].line = "11"
    /\ creating[c].tries < MaxTries
    /\ \E code \in JoinCodes :
           creating' = [creating EXCEPT ![c].code = code,
                                        ![c].tries = creating[c].tries + 1,
                                        ![c].line = "13"]
    /\ UNCHANGED <<ACTIVITIES, flowVars, twoCallsVars, connVars>>

\* activities.py 13, db.py 93-116: the SELECT by JOIN_CODE
get_activity(c) ==
    /\ creating[c].line = "13"
    /\ creating' = [creating EXCEPT
           ![c].existing = \E i \in 1..Len(ACTIVITIES) :
                               ACTIVITIES[i] = creating[c].code,
           ![c].line = "14"]
    /\ UNCHANGED <<ACTIVITIES, flowVars, twoCallsVars, connVars>>

\* activities.py 14: the code is taken, the loop goes on
CodeTaken(c) ==
    /\ creating[c].line = "14"
    /\ creating[c].existing
    /\ creating' = [creating EXCEPT ![c].line = "11"]
    /\ UNCHANGED <<ACTIVITIES, flowVars, twoCallsVars, connVars>>

\* activities.py 14-16, db.py 84-91: the INSERT and the return
insert_activity(c) ==
    /\ creating[c].line = "14"
    /\ ~creating[c].existing
    /\ ACTIVITIES' = Append(ACTIVITIES, creating[c].code)
    /\ creating' = [creating EXCEPT ![c].ret = Return(creating[c].code),
                                    ![c].line = "end"]
    /\ UNCHANGED <<flowVars, twoCallsVars, connVars>>

\* activities.py 17: the loop is over
RaiseRuntimeError(c) ==
    /\ creating[c].line = "11"
    /\ creating[c].tries >= MaxTries
    /\ creating' = [creating EXCEPT
           ![c].ret = [status |-> "raise", exc |-> "RuntimeError"],
           ![c].line = "end"]
    /\ UNCHANGED <<ACTIVITIES, flowVars, twoCallsVars, connVars>>

CreatingNext ==
    \E c \in Creators :
        \/ gen_join_code(c)
        \/ get_activity(c)
        \/ CodeTaken(c)
        \/ insert_activity(c)
        \/ RaiseRuntimeError(c)

Creating == CreatingInit /\ [][CreatingNext]_vars

(***************************************************************************)
(* Connecting: get_snowflake_conn of db.py under its retry wrapper,        *)
(* called by two sessions at once with the same configuration.             *)
(***************************************************************************)
Getters == {1, 2}

\* _key(cfg) of the one configuration
Key == "acct|user|db|schema|wh"

NewGet == [line |-> "15", attempt_number |-> 1, conn |-> 0, ret |-> NoOutcome]

ConnectingInit ==
    /\ _conn_cache = << >>
    /\ connections = << >>
    /\ getting = [g \in Getters |-> NewGet]
    /\ FlowUnused /\ TwoCallsUnused /\ CreatingUnused

\* db.py 15-17: the key is in the cache, its connection is returned
CacheHit(g) ==
    /\ getting[g].line = "15"
    /\ Key \in DOMAIN _conn_cache
    /\ getting' = [getting EXCEPT ![g].ret = Return(_conn_cache[Key]),
                                  ![g].line = "end"]
    /\ UNCHANGED <<_conn_cache, connections, flowVars, twoCallsVars, createVars>>

\* db.py 15-16: the key is not in the cache
CacheMiss(g) ==
    /\ getting[g].line = "15"
    /\ Key \notin DOMAIN _conn_cache
    /\ getting' = [getting EXCEPT ![g].line = "18"]
    /\ UNCHANGED <<_conn_cache, connections, flowVars, twoCallsVars, createVars>>

\* db.py 18-26: snowflake.connector.connect opens a connection
Connect(g) ==
    /\ getting[g].line = "18"
    /\ connections' = Append(connections, Len(connections) + 1)
    /\ getting' = [getting EXCEPT ![g].conn = Len(connections) + 1,
                                  ![g].line = "27"]
    /\ UNCHANGED <<_conn_cache, flowVars, twoCallsVars, createVars>>

\* db.py 18-26 and 13: connect raises; the wrapper tries again or gives up
ConnectFails(g) ==
    /\ getting[g].line = "18"
    /\ IF stop_after_attempt(getting[g].attempt_number)
       THEN getting' = [getting EXCEPT
               ![g].ret = [status |-> "raise", exc |-> "RetryError"],
               ![g].line = "end"]
       ELSE getting' = [getting EXCEPT
               ![g].attempt_number = getting[g].attempt_number + 1,
               ![g].line = "15"]
    /\ UNCHANGED <<_conn_cache, connections, flowVars, twoCallsVars, createVars>>

\* db.py 27-28: the connection is stored and returned
Store(g) ==
    /\ getting[g].line = "27"
    /\ _conn_cache' = Put(_conn_cache, Key, getting[g].conn)
    /\ getting' = [getting EXCEPT ![g].ret = Return(getting[g].conn),
                                  ![g].line = "end"]
    /\ UNCHANGED <<connections, flowVars, twoCallsVars, createVars>>

ConnectingNext ==
    \E g \in Getters :
        \/ CacheHit(g)
        \/ CacheMiss(g)
        \/ Connect(g)
        \/ ConnectFails(g)
        \/ Store(g)

Connecting == ConnectingInit /\ [][ConnectingNext]_vars

(***************************************************************************)
(* Properties.                                                             *)
(***************************************************************************)
\* the value _parse_json made of the response of the running pass
Parsed == _parse_json(resp)
\* the rows of the returned result
ResultRows == res.per_criterion
\* the normalized rubric weight of a criterion name
RubricWeight(name) == WMapGet(Normalized(criteria), name)
\* the text holds no JSON object: no part of it loads as a dict
NoJSONObject(text) ==
    /\ text \notin {NoContent, NoResponse}
    /\ \A i \in 1..Len(text) : \A j \in i..Len(text) :
           Loads(SubSeq(text, i, j)) \in {NonDict, DecodeError}
\* the response is malformed: JSON that is not an object, a per_criterion
\* entry that is not an object, or a score that is not a number
Malformed(text) ==
    /\ text # NoResponse
    /\ \/ Parsed = NonDict
       \/ \E i \in 1..Len(Get(Parsed, "per_criterion", << >>)) :
              LET row == Parsed.per_criterion[i] IN
              \/ ~IsObj(row)
              \/ ~IsNum(Get(row, "score", Zero))
\* the oracle calls of the invocation, in order
Calls == SelectSeq(log, LAMBDA e : e # "nocall")

\* C1: whenever the parsed payload has a non-empty per_criterion list,
\* every row of the returned result that names a rubric criterion carries
\* the normalized rubric weight of that name, whatever weight the oracle
\* reported
C1_RowWeightIsRubricWeight ==
    (res # NoResult /\ Get(Parsed, "per_criterion", << >>) # << >>) =>
        \A i \in 1..Len(ResultRows) :
            (\E k \in 1..Len(criteria) :
                 criteria[k].criterion = Get(ResultRows[i], "criterion", ""))
            => ResultRows[i].weight = RubricWeight(ResultRows[i].criterion)

\* C2: with rubric Correctness 0.5 / Style 0.5 and an oracle answer claiming
\* Correctness weight 0.9 score 100 and Style weight 0.1 score 0, the
\* returned overall_score is 50.0
C2_ReconciledOverallIsFifty ==
    ( /\ res # NoResult
      /\ criteria = <<Crit("Correctness", 5), Crit("Style", 5)>>
      /\ Get(Parsed, "per_criterion", << >>) =
           << [criterion |-> "Correctness", weight |-> Rat(9, 10), score |-> Rat(100, 1)],
              [criterion |-> "Style", weight |-> Rat(1, 10), score |-> Rat(0, 1)] >> )
    => res.overall_score = Rat(50, 1)

\* C3 as stated: every returned result has overall_score in [0,100] and a
\* scaled total in [0, max_score]
C3_ScaledWithinMaxScore ==
    res # NoResult =>
        /\ RLe(Zero, res.overall_score) /\ RLe(res.overall_score, Hundred)
        /\ RLe(Zero, res["_scaled_total"]) /\ RLe(res["_scaled_total"], max_score)

\* C3 amended: every returned result has overall_score in [0,100] and a
\* scaled total in [0, round(max_score, 2)]
C3_ScaledWithinRoundedMaxScore ==
    res # NoResult =>
        /\ RLe(Zero, res.overall_score) /\ RLe(res.overall_score, Hundred)
        /\ RLe(Zero, res["_scaled_total"])
        /\ RLe(res["_scaled_total"], Round2(max_score))

\* C3 witness: a result whose rows include a score above 100, clamped to
\* 100, and whose scaled total was rounded up past max_score
C3_Witness ==
    /\ res # NoResult
    /\ \E i \in 1..Len(ResultRows) :
           RLt(Hundred, Get(ResultRows[i], "score", Zero))
    /\ res.overall_score = Hundred
    /\ RLt(max_score, res["_scaled_total"])

\* C4: when the raw text holds no parsable JSON object, grading returns a
\* result: overall_score 0.0, per_criterion empty or the full normalized
\* rubric, summary "Parsing failed." or "No feedback returned."
C4_NoJSONObjectGivesFallback ==
    NoJSONObject(resp) =>
        /\ res # NoResult
        /\ res.overall_score = Zero
        /\ res.per_criterion \in {<< >>, Normalized(criteria)}
        /\ Get(res, "summary", "") \in {"Parsing failed.", "No feedback returned."}

\* C5: a malformed response never ends the pass with an exception; a
\* result is returned
C5_MalformedNeverRaises ==
    Malformed(resp) => res # NoResult /\ pc \notin {"backoff", "raised"}

\* C6: once a call to the oracle has returned a response, the invocation
\* makes no further oracle call
C6_NoCallAfterResponse ==
    \A i \in 1..Len(log) : \A j \in (i + 1)..Len(log) :
        log[i] = "response" => log[j] = "nocall"

\* C7: an invocation makes at most 3 oracle calls; after 3 transport
\* failures in a row it has made exactly 3 calls, has ended with an error
\* and has returned no result
C7_ThreeAttempts ==
    /\ Len(Calls) <= 3
    /\ Len(log) <= 3
    /\ (log = <<"transport", "transport", "transport">>) =>
          /\ pc \in {"raised", "done"}
          /\ error # NoError
          /\ res = NoResult
    /\ (error # NoError) => Len(log) = 3

\* C7 witness: three transport failures, the error is raised
C7_Witness ==
    /\ log = <<"transport", "transport", "transport">>
    /\ pc = "raised"
    /\ error # NoError

\* C8 as stated: the error surfaced after the retries is OracleUnavailable
C8_ErrorIsOracleUnavailable ==
    error # NoError => error.kind = "OracleUnavailable"

\* C8 amended: the error surfaced after the retries is tenacity's
\* RetryError, raised after the third pass and wrapping the exception of
\* that pass, whatever made the passes fail
C8_ErrorIsRetryError ==
    error # NoError =>
        /\ error.kind = "RetryError"
        /\ Len(log) = 3
        /\ error.last \in {"KeyError", "APIConnectionError",
                           "AttributeError", "ValueError"}
        /\ (log[3] = "transport") <=> (error.last = "APIConnectionError")
        /\ (log[3] = "nocall") <=> (error.last = "KeyError")

\* C8 witness: the retries are exhausted by transport failures
C8_Witness ==
    /\ pc = "raised"
    /\ error # NoError
    /\ error.last = "APIConnectionError"

\* C9: if evaluate_with_openai ended with an error, the run of the page
\* inserts no submission record
C9_NoInsertAfterError ==
    error # NoError =>
        /\ inserts = 0
        /\ \A i \in 1..Len(submissions) : submissions[i] = PriorRow
        /\ pc = "done" => shown = "exception"

\* C9 witness: the handler has run after an error
C9_Witness ==
    /\ error # NoError
    /\ pc = "done"
    /\ shown = "exception"

\* C10: insert_submission is called at most once per attempt, only after a
\* pass got a response and returned the aggregated result; the stored
\* total_score is the result's scaled total and the stored feedback is the
\* whole result; otherwise the table is as it was
C10_StoredOnceAndComplete ==
    /\ inserts <= 1
    /\ Len(submissions) <= MaxPrior + inserts
    /\ \A i \in 1..(Len(submissions) - inserts) : submissions[i] = PriorRow
    /\ inserts = 1 =>
          /\ res # NoResult
          /\ log[Len(log)] = "response"
          /\ Return(res) = evaluate_with_openai(criteria, max_score, Response(resp))
          /\ {"per_criterion", "overall_score", "_scaled_total"} \subseteq DOMAIN res
          /\ LET row == submissions[Len(submissions)] IN
                /\ row.TOTAL_SCORE = res["_scaled_total"]
                /\ row.FEEDBACK = res
                /\ row.STUDENT_NAME = "Ana"
    /\ (pc = "done" /\ shown # "Submission saved") => inserts = 0

\* C10 witness: a result whose scaled total differs from its overall score
\* has been stored
C10_Witness ==
    /\ inserts = 1
    /\ pc = "done"
    /\ res.overall_score # res["_scaled_total"]
    /\ res.overall_score # Zero

\* the raw weights of the rubric, for a rubric whose criteria all have one
HasWeights == \A i \in 1..Len(criteria) : "weight" \in DOMAIN criteria[i]
RawSum == SumSeq([i \in 1..Len(criteria) |-> RawWeight(criteria[i])])
\* the sum of the weights sent to the oracle
SentSum == SumSeq([i \in 1..Len(sent) |-> sent[i].weight])
\* the names of the rubric's criteria
RubricNames == {criteria[k].criterion : k \in 1..Len(criteria)}

\* C11: a submission whose response could not be parsed reaches the save
\* step with total_score 0.0 and a non-empty summary; it is not rejected
\* before the save, and what is stored is that zero result
C11_FallbackReachesSave ==
    (resp # NoResponse /\ Parsed = Fallback) =>
        /\ pc \in {"returned", "done"}
        /\ error = NoError
        /\ res # NoResult
        /\ SubmissionCreate(res).total_score = Zero
        /\ "summary" \in DOMAIN res /\ res.summary # ""
        /\ pc = "done" => shown \in {"Submission saved", "Save failed"}
        /\ shown = "Submission saved" =>
              /\ inserts = 1
              /\ submissions[Len(submissions)].TOTAL_SCORE = Zero
              /\ submissions[Len(submissions)].FEEDBACK.summary = "Parsing failed."

\* C11 witness: plain prose was answered and the zero result was stored
C11_Witness ==
    /\ resp = <<Seg("prose")>>
    /\ pc = "done"
    /\ shown = "Submission saved"
    /\ Len(criteria) > 0

\* C12: grading with an empty rubric makes no oracle call and returns no
\* result (it fails with a validation error)
C12_EmptyRubricFailsFast ==
    criteria = << >> =>
        /\ Len(Calls) = 0
        /\ res = NoResult
        /\ pc \notin {"returned"}

\* C13 as stated: for a non-empty rubric with raw weights >= 0 the weights
\* sent to the oracle are each >= 0 and sum to 1.0
C13_NormalizedSumsToOne ==
    ( /\ Len(log) > 0 /\ criteria # << >> /\ HasWeights
      /\ \A i \in 1..Len(criteria) : RLe(Zero, criteria[i].weight) )
    => /\ sent # NoRequest
       /\ \A i \in 1..Len(sent) : RLe(Zero, sent[i].weight)
       /\ SentSum = Rat(1, 1)

\* C13 amended: for a non-empty rubric with raw weights >= 0 that are not
\* all zero, the weights sent to the oracle are each >= 0 and sum to 1.0
C13_NormalizedSumsToOneUnlessAllZero ==
    ( /\ Len(log) > 0 /\ criteria # << >> /\ HasWeights
      /\ \A i \in 1..Len(criteria) : RLe(Zero, criteria[i].weight)
      /\ \E i \in 1..Len(criteria) : criteria[i].weight # Zero )
    => /\ sent # NoRequest
       /\ Len(sent) = Len(criteria)
       /\ \A i \in 1..Len(sent) : RLe(Zero, sent[i].weight)
       /\ SentSum = Rat(1, 1)

\* C13 witness: raw weights 40 and 20 were sent as 2/3 and 1/3
C13_Witness ==
    /\ criteria = <<Crit("Correctness", 400), Crit("Style", 200)>>
    /\ sent = << [criterion |-> "Correctness", weight |-> Rat(2, 3)],
                 [criterion |-> "Style", weight |-> Rat(1, 3)] >>

\* C14: a rubric whose raw weights are all zero is normalized without
\* failing, every criterion getting weight 0.0, and the oracle is asked
C14_AllZeroGivesZeros ==
    ( /\ Len(log) > 0 /\ criteria # << >> /\ HasWeights
      /\ \A i \in 1..Len(criteria) : criteria[i].weight = Zero )
    => /\ log[1] # "nocall"
       /\ Len(sent) = Len(criteria)
       /\ \A i \in 1..Len(sent) :
              /\ sent[i].criterion = criteria[i].criterion
              /\ sent[i].weight = Zero

\* C14 witness: the all-zero rubric went through a pass
C14_Witness ==
    /\ criteria = <<Crit("Correctness", 0), Crit("Style", 0)>>
    /\ Len(log) > 0
    /\ sent # NoRequest
    /\ res # NoResult

\* C15: for any rubric, negative raw weights included, the weights sent are
\* non-negative, and when the raw weights sum to <= 0 the divisor is 1.0
C15_NegativeWeightsTolerated ==
    (Len(log) > 0 /\ criteria # << >> /\ HasWeights) =>
        /\ sent # NoRequest
        /\ \A i \in 1..Len(sent) : RLe(Zero, sent[i].weight)
        /\ RLe(RawSum, Zero) =>
              \A i \in 1..Len(sent) : sent[i].weight = criteria[i].weight

\* C16: a criterion without a weight is treated as raw weight 0 and the
\* pass goes on to the oracle call
C16_MissingWeightTolerated ==
    (Len(log) > 0 /\ ~HasWeights) =>
        /\ log[1] # "nocall"
        /\ sent # NoRequest
        /\ error = NoError

\* C17: when the parsed payload's per_criterion is empty or absent, the
\* result's per_criterion is the normalized rubric in rubric order,
\* overall_score is 0.0 and summary is the payload's summary if it has one
\* and "No feedback returned." otherwise
C17_EmptyRowsGiveRubric ==
    (res # NoResult /\ Get(Parsed, "per_criterion", << >>) = << >>) =>
        /\ Len(ResultRows) = Len(criteria)
        /\ \A i \in 1..Len(criteria) :
               /\ ResultRows[i].criterion = criteria[i].criterion
               /\ ResultRows[i].weight = sent[i].weight
               /\ DOMAIN ResultRows[i] = {"criterion", "weight"}
        /\ res.overall_score = Zero
        /\ res.summary = IF "summary" \in DOMAIN Parsed THEN Parsed.summary
                         ELSE "No feedback returned."

\* C17 witness: a payload with a summary and an empty per_criterion list
C17_Witness ==
    /\ res # NoResult
    /\ Len(criteria) > 0
    /\ Parsed = [per_criterion |-> << >>, overall_score |-> Rat(177, 2),
                 summary |-> "Good work."]
    /\ res.summary = "Good work."

\* C18: every returned result has a row for every criterion of the rubric
C18_EveryCriterionHasRow ==
    res # NoResult =>
        \A name \in RubricNames :
            \E i \in 1..Len(ResultRows) :
                Get(ResultRows[i], "criterion", "") = name

\* C19: with a non-empty rubric, a row whose criterion name is not in the
\* rubric has weight 0.0 in the result, so it adds nothing to overall_score
C19_InventedRowWeighsNothing ==
    ( /\ res # NoResult /\ criteria # << >>
      /\ Get(Parsed, "per_criterion", << >>) # << >> ) =>
        \A i \in 1..Len(ResultRows) :
            Get(ResultRows[i], "criterion", "") \notin RubricNames
            => ResultRows[i].weight = Zero

\* C20: every returned result carries per_criterion, overall_score, summary
\* and the scaled total
C20_ResultHasAllFields ==
    res # NoResult =>
        {"per_criterion", "overall_score", "summary", "_scaled_total"}
            \subseteq DOMAIN res

\* C21: the scaled total of every returned result is the result's own
\* overall_score, which lies in [0, 100], divided by 100, multiplied by
\* max_score and rounded to 2 decimals
C21_ScaledIsRoundedShare ==
    res # NoResult =>
        /\ RLe(Zero, res.overall_score) /\ RLe(res.overall_score, Hundred)
        /\ res["_scaled_total"] =
               Round2(Rat(res.overall_score.n * max_score.n,
                          res.overall_score.d * 100 * max_score.d))

\* C21 witness: overall_score 75 of max_score 1.375 was scaled to 1.03
C21_Witness ==
    /\ res # NoResult
    /\ max_score = Rat(1375, 1000)
    /\ res.overall_score = Rat(75, 1)
    /\ res["_scaled_total"] = Rat(103, 100)

\* the oracle's rows of the end-to-end example
FourRows ==
    << [criterion |-> "Correctness", score |-> Rat(90, 1)],
       [criterion |-> "Quality", score |-> Rat(80, 1)],
       [criterion |-> "Efficiency", score |-> Rat(70, 1)],
       [criterion |-> "Edge Cases", score |-> Rat(60, 1)] >>

\* C22: with rubric Correctness 0.5, Quality 0.2, Efficiency 0.2, Edge
\* Cases 0.1, max_score 100 and oracle scores 90, 80, 70, 60 the result
\* has overall_score 81.0 and scaled total 81.0
C22_EndToEndIsEightyOne ==
    ( /\ log # << >> /\ log[Len(log)] = "response" /\ resp # NoResponse
      /\ criteria = <<Crit("Correctness", 5), Crit("Quality", 2),
                      Crit("Efficiency", 2), Crit("Edge Cases", 1)>>
      /\ max_score = Rat(100, 1)
      /\ Get(Parsed, "per_criterion", << >>) = FourRows )
    => /\ res # NoResult
       /\ res.overall_score = Rat(81, 1)
       /\ res["_scaled_total"] = Rat(81, 1)

\* C22 witness: the example was graded
C22_Witness ==
    /\ res # NoResult
    /\ max_score = Rat(100, 1)
    /\ Len(criteria) = 4
    /\ Parsed # NonDict
    /\ Get(Parsed, "per_criterion", << >>) = FourRows
    /\ res.overall_score = Rat(81, 1)

\* the rubric names some criterion more than once
HasDuplicateNames ==
    \E i \in 1..Len(criteria) : \E j \in (i + 1)..Len(criteria) :
        criteria[i].criterion = criteria[j].criterion
\* the last place of a name in the rubric
LastIndex(name) ==
    CHOOSE i \in 1..Len(criteria) :
        /\ criteria[i].criterion = name
        /\ \A k \in (i + 1)..Len(criteria) : criteria[k].criterion # name

\* C26: with a rubric that repeats a criterion name, every weight sent is
\* the raw weight divided by the sum of all raw weights, duplicates
\* included, and a row for which the oracle reported no weight gets the
\* normalized weight of the last occurrence of its name
C26_DuplicateNameKeepsLast ==
    (HasDuplicateNames /\ HasWeights /\ RawSum # Zero /\ res # NoResult) =>
        /\ \A i \in 1..Len(criteria) :
               sent[i].weight = RDiv(criteria[i].weight, RawSum)
        /\ Get(Parsed, "per_criterion", << >>) # << >> =>
               \A i \in 1..Len(ResultRows) :
                   LET row == Parsed.per_criterion[i] IN
                   ( /\ "weight" \notin DOMAIN row
                     /\ Get(row, "criterion", "") \in RubricNames )
                   => ResultRows[i].weight =
                         RDiv(criteria[LastIndex(row.criterion)].weight, RawSum)

\* C26 witness: rubric Correctness 2.0, Style 1.0, Correctness 1.0; the
\* row for Correctness got 1.0 / 4.0
C26_Witness ==
    /\ res # NoResult
    /\ HasDuplicateNames
    /\ Get(Parsed, "per_criterion", << >>) =
          << [criterion |-> "Correctness", score |-> Rat(90, 1)] >>
    /\ ResultRows[1].weight = Rat(1, 4)
    /\ res.overall_score = Rat(45, 2)

\* the weighted sum of the rows of the returned result
RECURSIVE WeightedSum(_)
WeightedSum(rows) ==
    IF rows = << >> THEN Zero
    ELSE RAdd(RMul(Get(Head(rows), "score", Zero), Head(rows).weight),
              WeightedSum(Tail(rows)))

\* C28: the overall_score of a result is never the one the oracle
\* reported: it is the weighted sum of the result's rows clamped to
\* [0, 100] when the payload had rows, and 0.0 otherwise
C28_OverallIsRecomputed ==
    res # NoResult =>
        res.overall_score =
            IF Get(Parsed, "per_criterion", << >>) # << >>
            THEN LET a == WeightedSum(ResultRows) IN
                 IF RLt(a, Zero) THEN Zero
                 ELSE IF RLt(Hundred, a) THEN Hundred ELSE a
            ELSE Zero

\* C28 witness: the oracle reported 88.5, the rows add up to 75
C28_Witness ==
    /\ res # NoResult
    /\ Get(Parsed, "overall_score", Zero) = Rat(177, 2)
    /\ Get(Parsed, "per_criterion", << >>) # << >>
    /\ res.overall_score = Rat(75, 1)

\* C25: the waits between the oracle attempts of an invocation are 1 after
\* the 1st failed attempt and 2 after the 2nd, each between 1 and 8, and
\* no wait follows the 3rd attempt
C25_WaitsAreOneThenTwo ==
    /\ \A i \in 1..Len(waits) : 1 <= waits[i] /\ waits[i] <= 8
    /\ Len(waits) <= 2
    /\ Len(waits) >= 1 => waits[1] = 1
    /\ Len(waits) >= 2 => waits[2] = 2
    /\ pc = "attempt" => Len(waits) = Len(log)
    /\ (pc # "attempt" /\ log # << >>) => Len(waits) = Len(log) - 1
    /\ error # NoError => waits = <<1, 2>> /\ Len(log) = 3

\* C25 witness: three attempts failed and two waits were made
C25_Witness ==
    /\ pc = "done"
    /\ error # NoError
    /\ Len(log) = 3
    /\ waits = <<1, 2>>

\* an invocation of TwoCalls has ended
Ended(p) == frame[p].line = "end"

\* C23: two grading passes on the same rubric, the same max_score and the
\* same oracle response end alike, with identical overall_score and scaled
\* total when they return a result
C23_SameInputsSameResult ==
    (Ended(1) /\ Ended(2) /\ reply[1] = reply[2]) =>
        /\ frame[1].ret.status = frame[2].ret.status
        /\ frame[1].ret.status = "ok" =>
              /\ frame[1].ret.data.overall_score = frame[2].ret.data.overall_score
              /\ frame[1].ret.data["_scaled_total"] =
                    frame[2].ret.data["_scaled_total"]
              /\ frame[1].ret.data = frame[2].ret.data

\* C23 witness: both passes graded the same one-row answer
C23_Witness ==
    /\ Ended(1) /\ Ended(2)
    /\ reply[1] = reply[2]
    /\ frame[1].ret.status = "ok"
    /\ frame[1].ret.data.overall_score = Rat(60, 1)
    /\ frame[2].ret.data.overall_score = Rat(60, 1)

\* C24: in every interleaving of two invocations, each ends as it would
\* when run alone on the same arguments and the same oracle response
C24_InterleavingChangesNothing ==
    \A p \in Invocations :
        Ended(p) =>
            frame[p].ret = evaluate_with_openai(criteria_before,
                                                caller_max_score, reply[p])

\* C24 witness: the two invocations got different answers and one returned
\* while the other was between its lines
C24_Witness ==
    /\ Ended(1)
    /\ frame[1].ret.status = "ok"
    /\ frame[2].line = "54"
    /\ frame[2].k = 2
    /\ reply[1] # reply[2]
    /\ frame[1].ret.data.overall_score = Rat(45, 2)

\* C27: whatever the invocations do, however they end, the caller's
\* criteria list holds the names and raw weights it held before
C27_CriteriaUntouched ==
    caller_criteria = criteria_before

\* C27 witness: one invocation returned a result, the other raised, and
\* the rubric was one that normalization changes
C27_Witness ==
    /\ Ended(1) /\ Ended(2)
    /\ frame[1].ret.status = "ok"
    /\ frame[2].ret.status = "raise"
    /\ criteria_before = <<Crit("Correctness", 400), Crit("Style", 200)>>
    /\ frame[1].normalized # criteria_before

\* C29: no two stored activities share a join code; a call tries at most 5
\* codes, inserts only a code it found unused, and inserts nothing when it
\* raises after 5 collisions
C29_JoinCodesUnique ==
    /\ \A i \in 1..Len(ACTIVITIES) : \A j \in (i + 1)..Len(ACTIVITIES) :
           ACTIVITIES[i] # ACTIVITIES[j]
    /\ \A c \in Creators :
           /\ creating[c].tries <= 5
           /\ (creating[c].line = "end" /\ creating[c].ret.status = "raise") =>
                  /\ creating[c].tries = 5
                  /\ creating[c].existing

\* C30: at most one connection is opened for the configuration key, every
\* successful call returns that connection, and the cache holds nothing
\* that connect did not open
C30_OneConnectionPerKey ==
    /\ Len(connections) <= 1
    /\ \A g \in Getters :
           (getting[g].line = "end" /\ getting[g].ret.status = "ok") =>
               /\ Key \in DOMAIN _conn_cache
               /\ getting[g].ret.data = _conn_cache[Key]
               /\ \A h \in Getters :
                      (getting[h].line = "end" /\ getting[h].ret.status = "ok")
                      => getting[h].ret.data = getting[g].ret.data
    /\ Key \in DOMAIN _conn_cache =>
           \E i \in 1..Len(connections) : connections[i] = _conn_cache[Key]
====
